---- MODULE Spec2Model ----
(***************************************************************************)
(* Model of DocumentTranslator (src/main.py): the chunker smart_chunk_text *)
(* and the chunk-level translation pipeline translate_text.                *)
(*                                                                         *)
(* A string is a sequence of one-character strings.  The translation       *)
(* backend is external: a call either returns a translated string or       *)
(* raises, chosen nondeterministically.                                    *)
(***************************************************************************)
EXTENDS Integers, Sequences, FiniteSets, TLC

\* ---------------------------------------------------------------- bounds
\* longest text handed to smart_chunk_text
MaxLen == 6
\* longest text handed to translate_text
MaxTextLen == 3
\* largest max_chunk_size the object is constructed with
MaxChunkSize == 3

\* ------------------------------------------------------------- alphabet
\* the characters texts are built from: a letter, a sentence terminator,
\* a blank and a newline
Alphabet == {"a", ".", " ", "\n"}

\* str.strip() / regex \s: the whitespace characters
Whitespace == {" ", "\t", "\n", "\r"}

\* the character class [.!?。！？] of the sentence regex (the three
\* full-width terminators are written by name)
Terminators == {".", "!", "?", "fw_stop", "fw_excl", "fw_quest"}

\* the paragraph delimiter "\n\n"
DELIM == <<"\n", "\n">>

RECURSIVE TextsOfLen(_)
TextsOfLen(n) ==
    IF n = 0 THEN {<<>>}
    ELSE {Append(t, c) : t \in TextsOfLen(n - 1), c \in Alphabet}

\* the texts smart_chunk_text is called with
Texts == UNION {TextsOfLen(n) : n \in 0..MaxLen}

\* the texts translate_text is called with
PipelineTexts == UNION {TextsOfLen(n) : n \in 0..MaxTextLen}

\* ------------------------------------------------------ string helpers
\* sep.join(parts)
RECURSIVE Join(_, _)
Join(sep, parts) ==
    IF parts = <<>> THEN <<>>
    ELSE IF Len(parts) = 1 THEN parts[1]
    ELSE parts[1] \o sep \o Join(sep, Tail(parts))

\* text.split("\n\n"): scan left to right, non-overlapping delimiters
RECURSIVE SplitFrom(_, _, _)
SplitFrom(t, i, cur) ==
    IF i > Len(t) THEN <<cur>>
    ELSE IF i < Len(t) /\ t[i] = "\n" /\ t[i + 1] = "\n"
         THEN <<cur>> \o SplitFrom(t, i + 2, <<>>)
         ELSE SplitFrom(t, i + 1, Append(cur, t[i]))

split_paragraphs(t) == SplitFrom(t, 1, <<>>)

\* the \s* of the sentence regex: first position at or after i that is
\* not whitespace
RECURSIVE SkipSpace(_, _)
SkipSpace(p, i) ==
    IF i <= Len(p) /\ p[i] \in Whitespace THEN SkipSpace(p, i + 1) ELSE i

\* re.split(r"(?<=[.!?。！？])\s*", para): a match starts right after a
\* terminator and swallows the whitespace that follows; the text left
\* after the last match (possibly empty) is the last piece
RECURSIVE SentencesFrom(_, _, _)
SentencesFrom(p, i, cur) ==
    IF i > Len(p) THEN <<cur>>
    ELSE IF p[i] \in Terminators
         THEN <<Append(cur, p[i])>> \o SentencesFrom(p, SkipSpace(p, i + 1), <<>>)
         ELSE SentencesFrom(p, i + 1, Append(cur, p[i]))

split_sentences(p) == SentencesFrom(p, 1, <<>>)

\* text.strip(): drop leading and trailing whitespace
RECURSIVE StripLeft(_)
StripLeft(t) ==
    IF t # <<>> /\ Head(t) \in Whitespace THEN StripLeft(Tail(t)) ELSE t

RECURSIVE StripRight(_)
StripRight(t) ==
    IF t # <<>> /\ t[Len(t)] \in Whitespace
    THEN StripRight(SubSeq(t, 1, Len(t) - 1)) ELSE t

strip(t) == StripRight(StripLeft(t))

\* ------------------------------------------------------------- chunker
\* The loop state of smart_chunk_text is (chunks, current_chunk,
\* current_size).  An entry of current_chunk is [s, para, sent]: the
\* string the code holds, plus the paragraph and sentence it came from
\* (sent = 0 for a whole paragraph).  A chunk is
\* [content, how, paras, sents]: content is the string the code appends;
\* how says which statement appended it ("para": a "\n\n".join flush,
\* "sentence": a "".join flush, "cut": a hard-cut slice); paras and sents
\* are the paragraphs and sentences whose text went into it.

ChunkOf(entries, sep, how) ==
    [content |-> Join(sep, [k \in 1..Len(entries) |-> entries[k].s]),
     how     |-> how,
     paras   |-> {entries[k].para : k \in 1..Len(entries)},
     sents   |-> {entries[k].sent : k \in 1..Len(entries)}]

\* for i in range(0, len(sentence), max): chunks.append(sentence[i:i+max])
RECURSIVE HardCut(_, _, _, _, _)
HardCut(sentence, i, max, pidx, sidx) ==
    IF i > Len(sentence) THEN <<>>
    ELSE LET hi == IF i + max - 1 < Len(sentence) THEN i + max - 1
                   ELSE Len(sentence)
         IN  <<[content |-> SubSeq(sentence, i, hi), how |-> "cut",
                paras |-> {pidx}, sents |-> {sidx}]>>
             \o HardCut(sentence, i + max, max, pidx, sidx)

\* one iteration of "for sentence in sentences"
SentenceStep(st, sentence, max, pidx, sidx) ==
    LET e == [s |-> sentence, para |-> pidx, sent |-> sidx] IN
    IF Len(sentence) > max
    THEN [st EXCEPT !.chunks = @ \o HardCut(sentence, 1, max, pidx, sidx)]
    ELSE IF st.current_size + Len(sentence) > max
    THEN [chunks |-> IF st.current_chunk # <<>>
                     THEN Append(st.chunks, ChunkOf(st.current_chunk, <<>>, "sentence"))
                     ELSE st.chunks,
          current_chunk |-> <<e>>,
          current_size |-> Len(sentence)]
    ELSE [chunks |-> st.chunks,
          current_chunk |-> Append(st.current_chunk, e),
          current_size |-> st.current_size + Len(sentence)]

RECURSIVE SentenceLoop(_, _, _, _, _)
SentenceLoop(st, sentences, k, max, pidx) ==
    IF k > Len(sentences) THEN st
    ELSE SentenceLoop(SentenceStep(st, sentences[k], max, pidx, k),
                      sentences, k + 1, max, pidx)

\* the "if para_size > self.max_chunk_size" branch
OversizedPara(st, para, max, pidx) ==
    LET flushed == IF st.current_chunk # <<>>
                   THEN [chunks |-> Append(st.chunks, ChunkOf(st.current_chunk, DELIM, "para")),
                         current_chunk |-> <<>>,
                         current_size |-> 0]
                   ELSE st
        after == SentenceLoop(flushed, split_sentences(para), 1, max, pidx)
    IN  IF after.current_chunk # <<>>
        THEN [chunks |-> Append(after.chunks, ChunkOf(after.current_chunk, <<>>, "sentence")),
              current_chunk |-> <<>>,
              current_size |-> 0]
        ELSE after

\* one iteration of "for para in paragraphs"
ParaStep(st, para, max, pidx) ==
    LET e == [s |-> para, para |-> pidx, sent |-> 0] IN
    IF Len(para) > max
    THEN OversizedPara(st, para, max, pidx)
    ELSE IF st.current_size + Len(para) > max
    THEN [chunks |-> Append(st.chunks, ChunkOf(st.current_chunk, DELIM, "para")),
          current_chunk |-> <<e>>,
          current_size |-> Len(para)]
    ELSE [chunks |-> st.chunks,
          current_chunk |-> Append(st.current_chunk, e),
          current_size |-> st.current_size + Len(para) + 2]

RECURSIVE ParaLoop(_, _, _, _)
ParaLoop(st, paragraphs, k, max) ==
    IF k > Len(paragraphs) THEN st
    ELSE ParaLoop(ParaStep(st, paragraphs[k], max, k), paragraphs, k + 1, max)

\* smart_chunk_text, with the provenance of every chunk
chunk_records(t, max) ==
    LET st == ParaLoop([chunks |-> <<>>, current_chunk |-> <<>>, current_size |-> 0],
                       split_paragraphs(t), 1, max)
    IN  IF st.current_chunk # <<>>
        THEN Append(st.chunks, ChunkOf(st.current_chunk, DELIM, "para"))
        ELSE st.chunks

\* smart_chunk_text: the list of strings the method returns
smart_chunk_text(t, max) ==
    LET r == chunk_records(t, max) IN [k \in 1..Len(r) |-> r[k].content]

\* --------------------------------------------------- translation backend
\* self.translators: the selection keys the caller passes as translator_type
translator_types == {"google", "microsoft", "mymemory"}

\* get_translator_instance: the backend class a selection key stands for
get_translator_instance(key) ==
    IF key = "google" THEN "GoogleTranslator"
    ELSE IF key = "microsoft" THEN "MicrosoftTranslator"
    ELSE IF key = "mymemory" THEN "MyMemoryTranslator"
    ELSE "GoogleTranslator"

\* what a successful translator.translate(s) returns: the backend is
\* external, so its output is s marked with the backend that produced it
Translation(backend, s) == <<backend>> \o s

\* the placeholder appended after the last failed attempt
SENTINEL == <<"[Translation unavailable for this section]">>

max_retries == 3

\* "if not text.strip()"
is_blank_ws_ignored(t) == t = <<>>
is_blank(t) == strip(t) = <<>>

\* "while retry_count < max_retries"
keep_trying_inclusive(r) == r <= max_retries
keep_trying(r) == r < max_retries

\* translated_chunks.append(translated)
after_success_prepend(buf, translated) == <<translated>> \o buf
after_success(buf, translated) == Append(buf, translated)

\* the except branch: the buffer after the r-th failed attempt of a chunk
after_failure_skip(buf, r) == buf
after_failure(buf, r) ==
    IF r < max_retries THEN buf ELSE Append(buf, SENTINEL)

\* ---------------------------------------------------------------- state
VARIABLES
    max_chunk_size,     \* self.max_chunk_size
    pc,                 \* where the method in progress stands
    text,               \* argument text of the method in progress
    translator_type,    \* argument translator_type of translate_text
    translator,         \* local translator: the backend object in use
    chunks,             \* local chunks (chunk records)
    translated_chunks,  \* local translated_chunks
    i,                  \* position of the loop over chunks (1-based)
    retry_count,        \* local retry_count
    calls,              \* log of the backend calls made so far
    chunker_calls,      \* number of times smart_chunk_text has run
    result,             \* the string translate_text returned
    raised              \* TRUE when translate_text ended with an exception

vars == <<max_chunk_size, pc, text, translator_type, translator, chunks,
          translated_chunks, i, retry_count, calls, chunker_calls, result,
          raised>>

\* DocumentTranslator(max_chunk_size): no method has been called yet
Init ==
    /\ max_chunk_size \in 1..MaxChunkSize
    /\ pc = "idle"
    /\ text = <<>>
    /\ translator_type = "google"
    /\ translator = "none"
    /\ chunks = <<>>
    /\ translated_chunks = <<>>
    /\ i = 0
    /\ retry_count = 0
    /\ calls = <<>>
    /\ chunker_calls = 0
    /\ result = <<>>
    /\ raised = FALSE

\* one translator.translate(arg) call, as the log records it
Call(arg, ok) ==
    [backend |-> translator, arg |-> arg, chunk |-> i, ok |-> ok,
     buffered |-> Len(translated_chunks),
     ret |-> IF ok THEN Translation(translator, arg) ELSE <<>>]

\* a caller invokes smart_chunk_text(t)
SmartChunkText ==
    /\ pc = "idle"
    /\ \E t \in Texts :
        /\ text' = t
        /\ chunks' = chunk_records(t, max_chunk_size)
        /\ chunker_calls' = chunker_calls + 1
        /\ pc' = "chunked"
        /\ UNCHANGED <<max_chunk_size, translator_type, translator,
                       translated_chunks, i, retry_count, calls, result, raised>>

\* translate_text(t, ..., tt) with blank t: return ""
TranslateTextBlank ==
    /\ pc = "idle"
    /\ \E t \in PipelineTexts, tt \in translator_types :
        /\ is_blank(t)
        /\ text' = t
        /\ translator_type' = tt
        /\ result' = <<>>
        /\ pc' = "done"
        /\ UNCHANGED <<max_chunk_size, translator, chunks, translated_chunks, i,
                       retry_count, calls, chunker_calls, raised>>

\* translate_text with len(t) <= max_chunk_size: build the translator and
\* reach the single translator.translate(text) call
TranslateTextShort ==
    /\ pc = "idle"
    /\ \E t \in PipelineTexts, tt \in translator_types :
        /\ ~is_blank(t)
        /\ Len(t) <= max_chunk_size
        /\ text' = t
        /\ translator_type' = tt
        /\ translator' = "GoogleTranslator"
        /\ pc' = "short"
        /\ UNCHANGED <<max_chunk_size, chunks, translated_chunks, i, retry_count,
                       calls, chunker_calls, result, raised>>

\* "return translator.translate(text)": the backend answers
ShortTranslateReturn ==
    /\ pc = "short"
    /\ calls' = Append(calls, Call(text, TRUE))
    /\ result' = Translation(translator, text)
    /\ pc' = "done"
    /\ UNCHANGED <<max_chunk_size, text, translator_type, translator, chunks,
                   translated_chunks, i, retry_count, chunker_calls, raised>>

\* "return translator.translate(text)": the backend raises; nothing
\* catches it on this path
ShortTranslateRaise ==
    /\ pc = "short"
    /\ calls' = Append(calls, Call(text, FALSE))
    /\ raised' = TRUE
    /\ pc' = "done"
    /\ UNCHANGED <<max_chunk_size, text, translator_type, translator, chunks,
                   translated_chunks, i, retry_count, chunker_calls, result>>

\* translate_text with len(t) > max_chunk_size: chunk the text, build
\* the translator and enter the loop over the chunks
TranslateTextChunked ==
    /\ pc = "idle"
    /\ \E t \in PipelineTexts, tt \in translator_types :
        /\ ~is_blank(t)
        /\ Len(t) > max_chunk_size
        /\ text' = t
        /\ translator_type' = tt
        /\ chunks' = chunk_records(t, max_chunk_size)
        /\ chunker_calls' = chunker_calls + 1
        /\ translated_chunks' = <<>>
        /\ translator' = "GoogleTranslator"
        /\ i' = 1
        /\ retry_count' = 0
        /\ pc' = IF chunks' = <<>> THEN "join" ELSE "attempt"
        /\ UNCHANGED <<max_chunk_size, calls, result, raised>>

\* the for loop moves on from chunk i: the next iteration resets
\* retry_count, or the loop is over
NextChunk ==
    /\ i' = i + 1
    /\ pc' = IF i < Len(chunks) THEN "attempt" ELSE "join"

\* translator.translate(chunk) answers: append, break
TranslateChunkOk ==
    /\ pc = "attempt"
    /\ keep_trying(retry_count)
    /\ calls' = Append(calls, Call(chunks[i].content, TRUE))
    /\ translated_chunks' =
           after_success(translated_chunks, Translation(translator, chunks[i].content))
    /\ NextChunk
    /\ retry_count' = IF i < Len(chunks) THEN 0 ELSE retry_count
    /\ UNCHANGED <<max_chunk_size, text, translator_type, translator, chunks,
                   chunker_calls, result, raised>>

\* translator.translate(chunk) raises: count the attempt; retry, or
\* append the sentinel and leave the while loop
TranslateChunkFail ==
    /\ pc = "attempt"
    /\ keep_trying(retry_count)
    /\ calls' = Append(calls, Call(chunks[i].content, FALSE))
    /\ translated_chunks' = after_failure(translated_chunks, retry_count + 1)
    /\ IF keep_trying(retry_count + 1)
       THEN /\ retry_count' = retry_count + 1
            /\ UNCHANGED <<i, pc>>
       ELSE /\ NextChunk
            /\ retry_count' = IF i < Len(chunks) THEN 0 ELSE retry_count + 1
    /\ UNCHANGED <<max_chunk_size, text, translator_type, translator, chunks,
                   chunker_calls, result, raised>>

\* return "\n\n".join(translated_chunks)
JoinResults ==
    /\ pc = "join"
    /\ result' = Join(DELIM, translated_chunks)
    /\ pc' = "done"
    /\ UNCHANGED <<max_chunk_size, text, translator_type, translator, chunks,
                   translated_chunks, i, retry_count, calls, chunker_calls,
                   raised>>

Next ==
    \/ SmartChunkText
    \/ TranslateTextBlank
    \/ TranslateTextShort
    \/ TranslateTextChunked
    \/ ShortTranslateReturn
    \/ ShortTranslateRaise
    \/ TranslateChunkOk
    \/ TranslateChunkFail
    \/ JoinResults

Spec == Init /\ [][Next]_vars

\* ------------------------------------------------------------ properties
\* text is empty or holds whitespace only
Blank(t) == \A k \in 1..Len(t) : t[k] \in Whitespace

\* translate_text took the chunked path and is in or past the chunk loop
OnChunkedPath == pc \in {"attempt", "join", "done"} /\ chunker_calls = 1

\* the backend calls made for chunk j, in the order they were made
ChunkCalls(j) == SelectSeq(calls, LAMBDA c : c.chunk = j)

\* the chunks put back together: nothing between two chunks cut from the
\* same paragraph, the paragraph delimiter between any other two
RECURSIVE Rejoin(_, _)
Rejoin(cs, k) ==
    IF k > Len(cs) THEN <<>>
    ELSE IF k = Len(cs) THEN cs[k].content
    ELSE cs[k].content
         \o (IF cs[k].paras \cap cs[k + 1].paras # {} THEN <<>> ELSE DELIM)
         \o Rejoin(cs, k + 1)

\* C1: every chunk that smart_chunk_text produced by paragraph packing or
\* sentence packing (not by a hard cut) is at most max_chunk_size
\* characters long, the "\n\n" between joined paragraphs included.
C1_ChunkSizeBound ==
    chunker_calls > 0 =>
        \A k \in 1..Len(chunks) :
            chunks[k].how # "cut" => Len(chunks[k].content) <= max_chunk_size

\* C2: rejoining the chunks of smart_chunk_text(text) in emission order,
\* with "\n\n" at paragraph boundaries and nothing inside a paragraph,
\* gives back text.
C2_RoundTrip ==
    chunker_calls > 0 => Rejoin(chunks, 1) = text

\* C3: smart_chunk_text of the empty text returns no chunk at all.
C3_EmptyTextNoChunks ==
    (pc = "chunked" /\ text = <<>>) => chunks = <<>>

\* C4: once translate_text has made a backend call it does not raise,
\* whatever the backend does.
C4_NoFailureAfterBackendCall ==
    calls # <<>> => ~raised

\* C5 as stated: when every backend call fails and text is longer than
\* max_chunk_size, translate_text returns, without raising, one sentinel
\* per chunk of smart_chunk_text(text) joined by "\n\n".
C5_AllFailAllSentinel_AnyText ==
    (/\ pc = "done"
     /\ Len(text) > max_chunk_size
     /\ \A k \in 1..Len(calls) : ~calls[k].ok)
    => /\ ~raised
       /\ translated_chunks =
              [k \in 1..Len(smart_chunk_text(text, max_chunk_size)) |-> SENTINEL]
       /\ result = Join(DELIM, [k \in 1..Len(smart_chunk_text(text, max_chunk_size))
                                   |-> SENTINEL])

\* C5 amended: the same, for a text that is longer than max_chunk_size
\* and not blank (a blank text returns "" before any chunking).
C5_AllFailAllSentinel ==
    (/\ pc = "done"
     /\ Len(text) > max_chunk_size
     /\ ~Blank(text)
     /\ \A k \in 1..Len(calls) : ~calls[k].ok)
    => /\ ~raised
       /\ translated_chunks =
              [k \in 1..Len(smart_chunk_text(text, max_chunk_size)) |-> SENTINEL]
       /\ result = Join(DELIM, [k \in 1..Len(smart_chunk_text(text, max_chunk_size))
                                   |-> SENTINEL])

\* a text of several chunks was translated with every backend call failing
C5_Witness ==
    /\ pc = "done"
    /\ Len(text) > max_chunk_size
    /\ ~Blank(text)
    /\ Len(chunks) >= 2
    /\ Len(calls) = 3 * Len(chunks)
    /\ \A k \in 1..Len(calls) : ~calls[k].ok
    /\ translated_chunks = [k \in 1..Len(chunks) |-> SENTINEL]
    /\ Len(result) = 3 * Len(chunks) - 2

\* C6: every chunk is submitted at most 3 times; a success is the last
\* call made for its chunk, so first success at attempt k means exactly k
\* calls, and the chunk's entry is then the backend's text, not the
\* sentinel; the sentinel is the entry only after 3 failed calls.
C6_PerChunkRetry ==
    \A j \in 1..Len(chunks) :
        LET cj == ChunkCalls(j)
            n  == Len(cj)
        IN  /\ n <= 3
            /\ \A k \in 1..n : cj[k].ok => k = n
            /\ j <= Len(translated_chunks) =>
                   IF n > 0 /\ cj[n].ok
                   THEN /\ translated_chunks[j] = cj[n].ret
                        /\ translated_chunks[j] # SENTINEL
                   ELSE /\ n = 3
                        /\ translated_chunks[j] = SENTINEL
            /\ j > Len(translated_chunks) => \A k \in 1..n : ~cj[k].ok

\* translate_text is over; one chunk succeeded on its 2nd attempt (2
\* calls, entry is the translation) and another used up its 3 attempts
C6_Witness ==
    /\ pc = "done"
    /\ \E j \in 1..Len(chunks) :
           /\ Len(ChunkCalls(j)) = 2
           /\ ChunkCalls(j)[2].ok
           /\ translated_chunks[j] = Translation(translator, chunks[j].content)
    /\ \E j \in 1..Len(chunks) :
           /\ Len(ChunkCalls(j)) = 3
           /\ translated_chunks[j] = SENTINEL

\* C7: on the chunked path the buffer holds one entry for each chunk
\* already handled, in the chunks' order, each the translation or the
\* sentinel of its chunk; a call for a chunk is made only when all earlier
\* chunks have their entry; after the loop there is one entry per chunk
\* and the returned string is the entries joined by "\n\n".
C7_OneEntryPerChunk ==
    OnChunkedPath =>
        /\ Len(translated_chunks) = i - 1
        /\ pc \in {"join", "done"} => Len(translated_chunks) = Len(chunks)
        /\ \A k \in 1..Len(translated_chunks) :
               translated_chunks[k] \in
                   {Translation("GoogleTranslator", chunks[k].content), SENTINEL}
        /\ \A k \in 1..Len(calls) :
               /\ calls[k].chunk \in 1..Len(chunks)
               /\ calls[k].arg = chunks[calls[k].chunk].content
               /\ calls[k].buffered = calls[k].chunk - 1
        /\ pc = "done" =>
               /\ ~raised
               /\ result = Join(DELIM, translated_chunks)

\* translate_text returned for a text of several distinct chunks, some
\* translated and some replaced by the sentinel
C7_Witness ==
    /\ OnChunkedPath
    /\ pc = "done"
    /\ Len(chunks) >= 3
    /\ chunks[1].content # chunks[2].content
    /\ translated_chunks[1] # SENTINEL
    /\ translated_chunks[2] = SENTINEL
    /\ translated_chunks[3] # SENTINEL

\* C8: every backend call is made to the backend that translator_type
\* selects.
C8_CallsGoToSelectedBackend ==
    \A k \in 1..Len(calls) :
        calls[k].backend = get_translator_instance(translator_type)

\* C9: for a text of at most max_chunk_size characters translate_text
\* never chunks; a blank text gets no backend call and the result "";
\* any other gets exactly one call, on the whole text, whose result is
\* what translate_text returns.
C9_ShortTextOneCall ==
    (pc \in {"short", "done"} /\ Len(text) <= max_chunk_size) =>
        /\ chunker_calls = 0
        /\ Len(calls) <= 1
        /\ pc = "done" =>
               IF Blank(text)
               THEN calls = <<>> /\ result = <<>> /\ ~raised
               ELSE /\ Len(calls) = 1
                    /\ calls[1].arg = text
                    /\ calls[1].ok => (~raised /\ result = calls[1].ret)

\* translate_text returned the backend's answer for a short text
C9_Witness ==
    /\ pc = "done"
    /\ Len(text) = max_chunk_size
    /\ ~Blank(text)
    /\ Len(calls) = 1
    /\ calls[1].ok
    /\ result = Translation("GoogleTranslator", text)

\* C10: inside one oversized paragraph, for sentences A before B, a
\* chunk holding A comes before every chunk that holds B and not A.
C10_SourceOrder ==
    chunker_calls > 0 =>
        \A x, y \in 1..Len(chunks) :
            \A A \in chunks[x].sents, B \in chunks[y].sents :
                (/\ chunks[x].paras = chunks[y].paras
                 /\ 0 < A
                 /\ A < B
                 /\ A \notin chunks[y].sents
                 /\ chunks[y].content # <<>>)
                => x < y

====
